---- MODULE Spec2Model ----
(***************************************************************************)
(* A model of src/main.go: the RFID door daemon.  main() configures the    *)
(* GPIO pins, loads the user table, registers the /sphincter HTTP handler, *)
(* blocks in http.ListenAndServe and, once that returns, runs the reader   *)
(* loop over the tokens delivered by the getRFIDToken goroutine.           *)
(*                                                                         *)
(* Time is counted in whole seconds; one Tick is one second, which is also *)
(* the length of every time.Sleep in the program.                          *)
(***************************************************************************)
EXTENDS Integers, Sequences, FiniteSets, TLC

VARIABLES
    users,            \* map[string]string built by parseUserList (main.go:151)
    now,              \* the clock read by time.Now / time.Since
    latestTimestamp,  \* main.go:39
    OpenPin,          \* level of rpio.Pin(22), main.go:30
    ClosePin,         \* level of rpio.Pin(27), main.go:31
    StatusPin0,       \* level of rpio.Pin(4), main.go:32
    StatusPin1,       \* level of rpio.Pin(17), main.go:33
    sphincterStatus,  \* main.go:35
    alive,            \* FALSE once a panic has ended the process
    mainPc,           \* position of the main goroutine
    msg,              \* loop variable of the reader loop (main.go:198)
    port,             \* frames waiting on the serial line, oldest first
    presented,        \* number of frames presented to the reader so far
    framerPc,         \* position of the goroutine of getRFIDToken
    c,                \* value the framer goroutine is sending on its channel
    handler,          \* position of each HTTP handler goroutine
    response,         \* last response written by a handler
    execPc,           \* position of the goroutine of setupSphincterCmdChannel
    monPc,            \* position inside updateSphincterStatus
    monK,             \* which of its four if statements is being evaluated
    monResult,        \* value returned by the last updateSphincterStatus call
    seen,             \* sensor snapshots that existed during the current call
    execCmd,          \* cmd, the loop variable of the executor (main.go:116)
    executed,         \* the commands the executor has received, in order
    prodPc,           \* position of each goroutine sending on CmdChan
    prodCmd,          \* the command each of them sends
    wire,             \* bytes the serial device has still to deliver
    acc,              \* bytes ReadBytes has gathered for the current frame
    emitted,          \* tokens getRFIDToken has sent on its channel, in order
    payloads,         \* payloads of the frames put on the wire, in order
    valTok,           \* tokens handed to the lookup of the reader loop, in order
    verdict           \* what the reader loop made of each of them

vars == <<users, now, latestTimestamp, OpenPin, ClosePin, StatusPin0, StatusPin1,
          sphincterStatus, alive, mainPc, msg, port, presented, framerPc, c,
          handler, response, execPc, monPc, monK, monResult, seen,
          execCmd, executed, prodPc, prodCmd, wire, acc, emitted, payloads,
          valTok, verdict>>

progVars == <<users, now, latestTimestamp, OpenPin, ClosePin, alive, mainPc, msg,
              port, presented, framerPc, c, handler, response, execPc>>

monVars == <<sphincterStatus, monPc, monK, monResult, seen>>

sensorVars == <<StatusPin0, StatusPin1>>

cmdVars == <<execCmd, executed, prodPc, prodCmd>>

wireVars == <<wire, acc, emitted, payloads>>

valVars == <<valTok, verdict>>

\* what the callers of the code main() leaves uncalled work on
harnessVars == <<cmdVars, wireVars, valVars>>

(***************************************************************************)
(* Bounds of the model.                                                    *)
(***************************************************************************)
MaxTime == 6      \* the clock stops after this many seconds
MaxFrames == 2    \* frames presented to the reader in one run
MaxReq == 2       \* HTTP requests served in one run
MaxUsers == 1     \* entries of the user table
MaxProd == 2      \* commands sent on CmdChan in one run

(***************************************************************************)
(* Constants of the program.                                               *)
(***************************************************************************)
UNKNOWN == 0
LOCKED == 1
UNLOCKED == 2
FAILURE == 3

Window == 5       \* 5*time.Second, the debounce window

ZeroTime == -1    \* the zero time.Time: earlier than every clock reading
MaxDuration == 1000000  \* what Time.Sub saturates to

Levels == {"Low", "High"}

(***************************************************************************)
(* Tokens are strings, modelled as sequences of characters.                *)
(***************************************************************************)
TokenA1B2 == <<"A", "1", "B", "2">>
Token0F00 == <<"0", "F", "0", "0">>
NoToken == << >>

\* the tokens a card can present: a credential, a noise read, an empty frame
Tokens == {TokenA1B2, Token0F00, NoToken}

\* parseUserList (main.go:63-78): a key is the first field of a line, so it
\* is never empty; the owner is the rest of the line.
Keys == Tokens \ {NoToken}

Owner == (TokenA1B2 :> "Alice") @@ (Token0F00 :> "Bob")

UserTables ==
    { [k \in K |-> Owner[k]] : K \in {S \in SUBSET Keys : Cardinality(S) <= MaxUsers} }

\* strings.ReplaceAll(s, old, "") for a one-character old
RECURSIVE ReplaceAll(_, _)
ReplaceAll(s, old) ==
    IF s = << >> THEN << >>
    ELSE IF Head(s) = old THEN ReplaceAll(Tail(s), old)
    ELSE <<Head(s)>> \o ReplaceAll(Tail(s), old)

isValid(token) ==
    LET t1 == ReplaceAll(token, "F")
        t2 == ReplaceAll(t1, "0")
    IN  Len(t2) > 0

\* time.Since(t)
Since(t) == IF t = ZeroTime THEN MaxDuration ELSE now - t

NoResponse == [request |-> "none", body |-> ""]

\* The state when main() reaches http.ListenAndServe (main.go:194), apart
\* from the levels of the two sensor lines.
Boot ==
    /\ users \in UserTables
    /\ now = 0
    /\ latestTimestamp = ZeroTime
    /\ OpenPin = "Low"
    /\ ClosePin = "Low"
    /\ sphincterStatus = UNKNOWN
    /\ alive = TRUE
    /\ mainPc = "serve"
    /\ msg = NoToken
    /\ port = << >>
    /\ presented = 0
    /\ framerPc = "unstarted"
    /\ c = NoToken
    /\ handler = [i \in 1..MaxReq |-> "new"]
    /\ response = NoResponse
    /\ execPc = "unstarted"
    /\ monPc = "idle"
    /\ monK = 1
    /\ monResult = UNKNOWN
    /\ seen = {}
    /\ execCmd = ""
    /\ executed = << >>
    /\ prodPc = [p \in 1..MaxProd |-> "idle"]
    /\ prodCmd = [p \in 1..MaxProd |-> ""]
    /\ wire = << >>
    /\ acc = << >>
    /\ emitted = << >>
    /\ payloads = << >>
    /\ valTok = << >>
    /\ verdict = << >>

\* main() never reads the sensor lines, so one level stands for all of them.
Init ==
    /\ Boot
    /\ StatusPin0 = "Low"
    /\ StatusPin1 = "Low"

\* Where the sensor lines matter they start at any level.
InitSensors ==
    /\ Boot
    /\ StatusPin0 \in Levels
    /\ StatusPin1 \in Levels

(***************************************************************************)
(* The environment: the card reader, the clock, the door sensors.          *)
(***************************************************************************)
\* A card is held to the reader: one frame arrives on the serial line.
Present(tok) ==
    /\ alive
    /\ presented < MaxFrames
    /\ port' = Append(port, tok)
    /\ presented' = presented + 1
    /\ UNCHANGED <<users, now, latestTimestamp, OpenPin, ClosePin, alive, mainPc,
                   msg, framerPc, c, handler, response, execPc>>
    /\ UNCHANGED <<monVars, sensorVars, harnessVars>>

\* One second passes: every time.Sleep(1 * time.Second) in progress ends.
Tick ==
    /\ alive
    /\ now < MaxTime
    /\ now' = now + 1
    /\ mainPc' = IF mainPc = "dwell" THEN "wake" ELSE mainPc
    /\ handler' = [i \in DOMAIN handler |->
                      IF handler[i] = "dwell" THEN "wake" ELSE handler[i]]
    /\ execPc' = IF execPc = "dwell" THEN "wake" ELSE execPc
    /\ UNCHANGED <<users, latestTimestamp, OpenPin, ClosePin, alive, msg, port,
                   presented, framerPc, c, response>>
    /\ UNCHANGED <<monVars, sensorVars, harnessVars>>

\* The door sensors change level.
SensorChange(p0, p1) ==
    /\ alive
    /\ <<p0, p1>> # <<StatusPin0, StatusPin1>>
    /\ StatusPin0' = p0
    /\ StatusPin1' = p1
    /\ seen' = IF monPc \in {"read0", "read1", "ret"}
               THEN seen \cup {<<p0, p1>>}
               ELSE seen
    /\ UNCHANGED <<sphincterStatus, monPc, monK, monResult>>
    /\ UNCHANGED <<progVars, harnessVars>>

(***************************************************************************)
(* The HTTP server (main.go:168-194).  Every request runs the handler in a *)
(* goroutine of its own; requests are numbered in their order of arrival.  *)
(***************************************************************************)
Actions == {"state", "unlock", "lock", "status"}

Accepting(i) ==
    /\ alive
    /\ mainPc = "serve"
    /\ handler[i] = "new"
    /\ \A j \in 1..(i - 1) : handler[j] # "new"

Respond(i, request, body) ==
    /\ handler' = [handler EXCEPT ![i] = "done"]
    /\ response' = [request |-> request, body |-> body]

\* main.go:170-173
HandleNonGet(i) ==
    /\ Accepting(i)
    /\ Respond(i, "POST", "")
    /\ UNCHANGED <<users, now, latestTimestamp, OpenPin, ClosePin, alive, mainPc,
                   msg, port, presented, framerPc, c, execPc>>
    /\ UNCHANGED <<monVars, sensorVars, harnessVars>>

\* main.go:178-179
HandleState(i) ==
    /\ Accepting(i)
    /\ Respond(i, "state", "UNLOCKED")
    /\ UNCHANGED <<users, now, latestTimestamp, OpenPin, ClosePin, alive, mainPc,
                   msg, port, presented, framerPc, c, execPc>>
    /\ UNCHANGED <<monVars, sensorVars, harnessVars>>

\* HandleUnlock with the handler recording the unlock in latestTimestamp
HandleUnlock_Stamps(i) ==
    /\ Accepting(i)
    /\ OpenPin' = "High"
    /\ latestTimestamp' = now
    /\ handler' = [handler EXCEPT ![i] = "dwell"]
    /\ UNCHANGED <<users, now, ClosePin, alive, mainPc, msg, port,
                   presented, framerPc, c, response, execPc>>
    /\ UNCHANGED <<monVars, sensorVars, harnessVars>>

\* main.go:180-183: OpenPin.High(), then the handler sleeps
HandleUnlock(i) ==
    /\ Accepting(i)
    /\ OpenPin' = "High"
    /\ handler' = [handler EXCEPT ![i] = "dwell"]
    /\ UNCHANGED <<users, now, latestTimestamp, ClosePin, alive, mainPc, msg, port,
                   presented, framerPc, c, response, execPc>>
    /\ UNCHANGED <<monVars, sensorVars, harnessVars>>

\* main.go:184-185: OpenPin.Low() and the response
HandleUnlockDone(i) ==
    /\ alive
    /\ handler[i] = "wake"
    /\ OpenPin' = "Low"
    /\ Respond(i, "unlock", "UNLOCKED")
    /\ UNCHANGED <<users, now, latestTimestamp, ClosePin, alive, mainPc, msg, port,
                   presented, framerPc, c, execPc>>
    /\ UNCHANGED <<monVars, sensorVars, harnessVars>>

\* HandleLock with the Close pin driven from the handler itself
HandleLock_DrivesClose(i) ==
    /\ Accepting(i)
    /\ ClosePin' = "High"
    /\ Respond(i, "lock", "LOCKED")
    /\ UNCHANGED <<users, now, latestTimestamp, OpenPin, alive, mainPc, msg, port,
                   presented, framerPc, c, execPc>>
    /\ UNCHANGED <<monVars, sensorVars, harnessVars>>

\* main.go:186-188
HandleLock(i) ==
    /\ Accepting(i)
    /\ Respond(i, "lock", "LOCKED")
    /\ UNCHANGED <<users, now, latestTimestamp, OpenPin, ClosePin, alive, mainPc,
                   msg, port, presented, framerPc, c, execPc>>
    /\ UNCHANGED <<monVars, sensorVars, harnessVars>>

\* main.go:189-190
HandleDefault(i, action) ==
    /\ Accepting(i)
    /\ action \notin {"state", "unlock", "lock"}
    /\ Respond(i, action, "action parameter must be one of status, lock or unlock")
    /\ UNCHANGED <<users, now, latestTimestamp, OpenPin, ClosePin, alive, mainPc,
                   msg, port, presented, framerPc, c, execPc>>
    /\ UNCHANGED <<monVars, sensorVars, harnessVars>>

\* main.go:194-198: http.ListenAndServe returns (it only ever returns an
\* error), main logs "Initialized!" and enters the reader loop, whose range
\* expression starts the goroutine of getRFIDToken.
ServerStop ==
    /\ alive
    /\ mainPc = "serve"
    /\ mainPc' = "recv"
    /\ framerPc' = "read"
    /\ UNCHANGED <<users, now, latestTimestamp, OpenPin, ClosePin, alive, msg, port,
                   presented, c, handler, response, execPc>>
    /\ UNCHANGED <<monVars, sensorVars, harnessVars>>

(***************************************************************************)
(* getRFIDToken (main.go:42-61): the goroutine that frames the stream.     *)
(***************************************************************************)
\* main.go:47-56: one frame is read, stripped, and offered on the channel
FramerRead ==
    /\ alive
    /\ framerPc = "read"
    /\ port # << >>
    /\ c' = Head(port)
    /\ port' = Tail(port)
    /\ framerPc' = "send"
    /\ UNCHANGED <<users, now, latestTimestamp, OpenPin, ClosePin, alive, mainPc,
                   msg, presented, handler, response, execPc>>
    /\ UNCHANGED <<monVars, sensorVars, harnessVars>>

\* FramerFault with the error ignored: what was read is sent as a token
FramerFault_EmitsPartial ==
    /\ alive
    /\ framerPc = "read"
    /\ c' = NoToken
    /\ framerPc' = "send"
    /\ UNCHANGED <<users, now, latestTimestamp, OpenPin, ClosePin, alive, mainPc, msg,
                   port, presented, handler, response, execPc>>
    /\ UNCHANGED <<monVars, sensorVars, harnessVars>>

\* main.go:49-53: ReadBytes fails and the goroutine panics
FramerFault ==
    /\ alive
    /\ framerPc = "read"
    /\ alive' = FALSE
    /\ UNCHANGED <<users, now, latestTimestamp, OpenPin, ClosePin, mainPc, msg,
                   port, presented, framerPc, c, handler, response, execPc>>
    /\ UNCHANGED <<monVars, sensorVars, harnessVars>>

(***************************************************************************)
(* The reader loop of main (main.go:198-216).                              *)
(***************************************************************************)
\* Debounced with the window one second short
Debounced_Short == Since(latestTimestamp) < Window - 1

\* main.go:199
Debounced == Since(latestTimestamp) < Window

\* main.go:198-202: a token is received and the debounce window is checked
ReaderRecv ==
    /\ alive
    /\ mainPc = "recv"
    /\ framerPc = "send"
    /\ c' = NoToken
    /\ framerPc' = "read"
    /\ IF Debounced
       THEN mainPc' = "recv" /\ msg' = NoToken
       ELSE mainPc' = "lookup" /\ msg' = c
    /\ UNCHANGED <<users, now, latestTimestamp, OpenPin, ClosePin, alive, port,
                   presented, handler, response, execPc>>
    /\ UNCHANGED <<monVars, sensorVars, harnessVars>>

\* ReaderLookup with the result of the lookup ignored for well-formed tokens
ReaderLookup_AnyWellFormed ==
    /\ alive
    /\ mainPc = "lookup"
    /\ IF msg \in DOMAIN users \/ isValid(msg)
       THEN /\ latestTimestamp' = now
            /\ OpenPin' = "High"
            /\ mainPc' = "dwell"
            /\ msg' = msg
       ELSE /\ mainPc' = "recv"
            /\ msg' = NoToken
            /\ UNCHANGED <<latestTimestamp, OpenPin>>
    /\ UNCHANGED <<users, now, ClosePin, alive, port, presented, framerPc, c,
                   handler, response, execPc>>
    /\ UNCHANGED <<monVars, sensorVars, harnessVars>>

\* main.go:204-209 and 211-215: the table lookup and what follows it
ReaderLookup ==
    /\ alive
    /\ mainPc = "lookup"
    /\ IF msg \in DOMAIN users
       THEN /\ latestTimestamp' = now
            /\ OpenPin' = "High"
            /\ mainPc' = "dwell"
            /\ msg' = msg
       ELSE /\ mainPc' = "recv"
            /\ msg' = NoToken
            /\ UNCHANGED <<latestTimestamp, OpenPin>>
    /\ UNCHANGED <<users, now, ClosePin, alive, port, presented, framerPc, c,
                   handler, response, execPc>>
    /\ UNCHANGED <<monVars, sensorVars, harnessVars>>

\* main.go:210
ReaderLow ==
    /\ alive
    /\ mainPc = "wake"
    /\ OpenPin' = "Low"
    /\ mainPc' = "recv"
    /\ msg' = NoToken
    /\ UNCHANGED <<users, now, latestTimestamp, ClosePin, alive, port,
                   presented, framerPc, c, handler, response, execPc>>
    /\ UNCHANGED <<monVars, sensorVars, harnessVars>>

(***************************************************************************)
(* The program as main() runs it.  setupSphincterCmdChannel and            *)
(* updateSphincterStatus are called from nowhere, so the executor goroutine *)
(* never exists (execPc stays "unstarted") and the sensors are never read. *)
(***************************************************************************)
Next ==
    \/ \E tok \in Tokens : Present(tok)
    \/ Tick
    \/ \E i \in 1..MaxReq : HandleNonGet(i)
    \/ \E i \in 1..MaxReq : HandleState(i)
    \/ \E i \in 1..MaxReq : HandleUnlock(i)
    \/ \E i \in 1..MaxReq : HandleUnlockDone(i)
    \/ \E i \in 1..MaxReq : HandleLock(i)
    \/ \E i \in 1..MaxReq, a \in Actions : HandleDefault(i, a)
    \/ ServerStop
    \/ FramerRead
    \/ FramerFault
    \/ ReaderRecv
    \/ ReaderLookup
    \/ ReaderLow

Spec == Init /\ [][Next]_vars

(***************************************************************************)
(* The Control Surface alone, with the door sensors changing under it:     *)
(* the program for as long as http.ListenAndServe does not return.         *)
(***************************************************************************)
NextSurface ==
    \/ Tick
    \/ \E p0 \in Levels, p1 \in Levels : SensorChange(p0, p1)
    \/ \E i \in 1..MaxReq : HandleNonGet(i)
    \/ \E i \in 1..MaxReq : HandleState(i)
    \/ \E i \in 1..MaxReq : HandleUnlock(i)
    \/ \E i \in 1..MaxReq : HandleUnlockDone(i)
    \/ \E i \in 1..MaxReq : HandleLock(i)
    \/ \E i \in 1..MaxReq, a \in Actions : HandleDefault(i, a)

SpecSurface == InitSensors /\ [][NextSurface]_vars

(***************************************************************************)
(* updateSphincterStatus (main.go:87-105), called by nothing in main.go,   *)
(* is run here by a caller that calls it again and again.  Each Read of a  *)
(* sensor pin is a step of its own.                                        *)
(***************************************************************************)
\* Branches with LOCKED and UNLOCKED taken for each other
Branches_Swapped ==
    << [p0 |-> "Low",  p1 |-> "Low",  status |-> UNKNOWN],
       [p0 |-> "High", p1 |-> "High", status |-> FAILURE],
       [p0 |-> "High", p1 |-> "Low",  status |-> LOCKED],
       [p0 |-> "Low",  p1 |-> "High", status |-> UNLOCKED] >>

\* the four if statements: the levels each compares with, and what it assigns
Branches ==
    << [p0 |-> "Low",  p1 |-> "Low",  status |-> UNKNOWN],
       [p0 |-> "High", p1 |-> "High", status |-> FAILURE],
       [p0 |-> "High", p1 |-> "Low",  status |-> UNLOCKED],
       [p0 |-> "Low",  p1 |-> "High", status |-> LOCKED] >>

\* on to the next if statement, or to the return after the last
NextBranch ==
    IF monK = Len(Branches)
    THEN monPc' = "ret" /\ monK' = monK
    ELSE monPc' = "read0" /\ monK' = monK + 1

MonCall ==
    /\ monPc \in {"idle", "returned"}
    /\ monPc' = "read0"
    /\ monK' = 1
    /\ seen' = {<<StatusPin0, StatusPin1>>}
    /\ UNCHANGED <<sphincterStatus, monResult>>
    /\ UNCHANGED <<progVars, sensorVars, harnessVars>>

\* StatusPin0.Read() == ..., the left operand of &&
MonRead0 ==
    /\ monPc = "read0"
    /\ IF StatusPin0 = Branches[monK].p0
       THEN monPc' = "read1" /\ monK' = monK
       ELSE NextBranch
    /\ UNCHANGED <<sphincterStatus, monResult, seen>>
    /\ UNCHANGED <<progVars, sensorVars, harnessVars>>

\* StatusPin1.Read() == ..., the right operand, and the assignment
MonRead1 ==
    /\ monPc = "read1"
    /\ sphincterStatus' = IF StatusPin1 = Branches[monK].p1
                          THEN Branches[monK].status
                          ELSE sphincterStatus
    /\ NextBranch
    /\ UNCHANGED <<monResult, seen>>
    /\ UNCHANGED <<progVars, sensorVars, harnessVars>>

\* return sphincterStatus
MonReturn ==
    /\ monPc = "ret"
    /\ monResult' = sphincterStatus
    /\ monPc' = "returned"
    /\ UNCHANGED <<sphincterStatus, monK, seen>>
    /\ UNCHANGED <<progVars, sensorVars, harnessVars>>

NextMonitor ==
    \/ MonCall
    \/ MonRead0
    \/ MonRead1
    \/ MonReturn
    \/ \E p0 \in Levels, p1 \in Levels : SensorChange(p0, p1)

\* the sensor lines may change at any moment, also during a call
SpecMonitor == InitSensors /\ [][NextMonitor]_vars

StableSensorChange(p0, p1) ==
    /\ monPc \in {"idle", "returned"}
    /\ SensorChange(p0, p1)

NextMonitorStable ==
    \/ MonCall
    \/ MonRead0
    \/ MonRead1
    \/ MonReturn
    \/ \E p0 \in Levels, p1 \in Levels : StableSensorChange(p0, p1)

\* the sensor lines hold their levels for the length of every call
SpecMonitorStable == InitSensors /\ [][NextMonitorStable]_vars

(***************************************************************************)
(* The same program with the scheduling the Go runtime gives its           *)
(* goroutines: a goroutine that can run does run, and time passes.  Nothing *)
(* is assumed of the environment: cards, requests, faults of the serial    *)
(* line or of the listener may or may not come.                            *)
(***************************************************************************)
Fairness ==
    /\ WF_vars(Tick)
    /\ WF_vars(FramerRead)
    /\ WF_vars(ReaderRecv)
    /\ WF_vars(ReaderLookup)
    /\ WF_vars(ReaderLow)
    /\ \A i \in 1..MaxReq : WF_vars(HandleUnlockDone(i))

FairSpec == Spec /\ Fairness

(***************************************************************************)
(* Properties.                                                             *)
(***************************************************************************)
\* a pulse is in progress from the High of a pin to its Low
ReaderPulsing == mainPc \in {"dwell", "wake"}
HandlerPulsing(i) == handler[i] \in {"dwell", "wake"}

PulsesInProgress ==
    (IF ReaderPulsing THEN 1 ELSE 0)
        + Cardinality({i \in 1..MaxReq : HandlerPulsing(i)})

\* C1: pulses never overlap: no pulse starts while another one, of the reader
\* path or of a remote unlock, is still in its dwell (so the pulses are
\* totally ordered, and the order is that of their submission).
C1_PulsesNeverOverlap == PulsesInProgress <= 1
\* the steps of the reader loop, told by the position of main
ReaderReceives == mainPc = "recv" /\ framerPc = "send" /\ framerPc' = "read"
ReaderLooksUp == mainPc = "lookup" /\ mainPc' # "lookup"

\* C2: the reader path starts a pulse only for a token that is a key of the
\* table; receiving and looking up a well-formed token that is no key changes
\* neither pin and leaves the debounce timestamp alone.
C2_UnauthorizedNoAction ==
    [][ /\ (mainPc # "dwell" /\ mainPc' = "dwell") => msg \in DOMAIN users
        /\ (ReaderReceives /\ isValid(c) /\ c \notin DOMAIN users)
              => UNCHANGED <<OpenPin, ClosePin, latestTimestamp>>
        /\ (ReaderLooksUp /\ isValid(msg) /\ msg \notin DOMAIN users)
              => /\ UNCHANGED <<OpenPin, ClosePin, latestTimestamp>>
                 /\ mainPc' = "recv" ]_vars

\* a well-formed token that is no key has passed the debounce check and is
\* about to be looked up
C2_Witness ==
    /\ mainPc = "lookup"
    /\ isValid(msg)
    /\ msg \notin DOMAIN users
    /\ users # << >>

\* C3: at most one of the two actuator pins is High.
C3_AtMostOnePinHigh == ~(OpenPin = "High" /\ ClosePin = "High")

\* the Open pin is High with two pulses in progress at once
C3_Witness ==
    /\ OpenPin = "High"
    /\ ClosePin = "Low"
    /\ PulsesInProgress >= 2

\* C4: every change of level of an actuator pin is a step of the command
\* executor, the goroutine of setupSphincterCmdChannel.
C4_OnlyExecutorWritesPins ==
    [][(OpenPin' # OpenPin \/ ClosePin' # ClosePin) => execPc' # execPc]_vars

\* C5: looking up a token made of '0' and 'F' only authorizes nothing: no
\* pin changes, the debounce timestamp stays, no pulse starts.
C5_NoiseTokenNoAction ==
    [][(ReaderLooksUp /\ ~isValid(msg))
          => /\ UNCHANGED <<OpenPin, ClosePin, latestTimestamp>>
             /\ mainPc' = "recv" ]_vars

\* C6: an authorized token received less than Window seconds after the last
\* admitted one is dropped (no pulse, timestamp unchanged); one received
\* Window seconds or more after it goes on to the lookup, which admits it
\* (timestamp set, Open pin High); two admissions are never less than Window
\* seconds apart.
C6_Debounce ==
    [][ /\ (ReaderReceives /\ c \in DOMAIN users /\ latestTimestamp # ZeroTime
               /\ now - latestTimestamp < Window)
              => /\ mainPc' = "recv"
                 /\ UNCHANGED <<OpenPin, ClosePin, latestTimestamp>>
        /\ (ReaderReceives /\ c \in DOMAIN users
               /\ (latestTimestamp = ZeroTime \/ now - latestTimestamp >= Window))
              => mainPc' = "lookup" /\ msg' = c
        /\ (ReaderLooksUp /\ msg \in DOMAIN users)
              => latestTimestamp' = now /\ OpenPin' = "High" /\ mainPc' = "dwell"
        /\ (latestTimestamp # ZeroTime /\ latestTimestamp' # latestTimestamp)
              => latestTimestamp' - latestTimestamp >= Window ]_vars

\* after an earlier admission, a second authorized token has passed the
\* debounce check and is about to be admitted
C6_Witness ==
    /\ mainPc = "lookup"
    /\ msg \in DOMAIN users
    /\ latestTimestamp # ZeroTime
    /\ now - latestTimestamp >= Window
\* an authorized token waits on the serial line, outside the debounce
\* window, while main is blocked in http.ListenAndServe
FrameWaitsWhileServing ==
    /\ alive
    /\ mainPc = "serve"
    /\ port # << >>
    /\ Head(port) \in DOMAIN users
    /\ isValid(Head(port))
    /\ ~Debounced

\* C7: while the Control Surface serves, an authorized frame that has arrived
\* outside the debounce window is eventually admitted by the reader path
\* (timestamp set, Open pin pulsed); the property lets go only when the
\* server stops serving or the process ends.
C7_ReaderProgressWhileServing ==
    FrameWaitsWhileServing
        ~> (latestTimestamp # ZeroTime \/ mainPc # "serve" \/ ~alive)

\* the mapping of the two sensor lines to a door state (spec, section 3)
DoorStateOf(p0, p1) ==
    CASE p0 = "Low"  /\ p1 = "Low"  -> UNKNOWN
      [] p0 = "High" /\ p1 = "High" -> FAILURE
      [] p0 = "High" /\ p1 = "Low"  -> UNLOCKED
      [] p0 = "Low"  /\ p1 = "High" -> LOCKED

StateName(st) ==
    CASE st = UNKNOWN  -> "UNKNOWN"
      [] st = LOCKED   -> "LOCKED"
      [] st = UNLOCKED -> "UNLOCKED"
      [] st = FAILURE  -> "FAILURE"

\* C8: the answer to a state query is the door state the two sensor lines
\* map to at the time of the query.
C8_StateQueryReportsSensors ==
    [][(handler' # handler /\ response'.request = "state")
          => response'.body = StateName(DoorStateOf(StatusPin0, StatusPin1))]_vars

\* C9: with the sensor lines stable during the call, updateSphincterStatus
\* returns the state their levels map to, whatever an earlier call returned.
C9_StableMapping ==
    monPc = "returned"
        => /\ Cardinality(seen) = 1
           /\ \A snap \in seen : monResult = DoorStateOf(snap[1], snap[2])

\* a call has returned LOCKED for the lines at (Low, High)
C9_Witness ==
    /\ monPc = "returned"
    /\ seen = {<<"Low", "High">>}
    /\ monResult = LOCKED

\* C10: with the sensor lines changing during the call, the state returned is
\* the mapping of a snapshot of both lines that existed during the call.
C10_NoTornRead ==
    monPc = "returned"
        => \E snap \in seen : monResult = DoorStateOf(snap[1], snap[2])

(***************************************************************************)
(* setupSphincterCmdChannel (main.go:114-134) and CmdChan (main.go:36),    *)
(* which main() never uses, run here with goroutines that each send one    *)
(* command on CmdChan.  CmdChan is made without a capacity: a send is a    *)
(* hand-off to the executor's receive.                                     *)
(***************************************************************************)
Cmds == {"open", "close", "reboot"}

\* main.go:114-116: the executor goroutine is started and waits on CmdChan
ExecStart ==
    /\ alive
    /\ execPc = "unstarted"
    /\ execPc' = "recv"
    /\ UNCHANGED <<users, now, latestTimestamp, OpenPin, ClosePin, alive, mainPc,
                   msg, port, presented, framerPc, c, handler, response>>
    /\ UNCHANGED <<monVars, sensorVars, cmdVars, wireVars, valVars>>

\* a goroutine reaches its statement CmdChan <- cmd
Submit(p, cmd) ==
    /\ alive
    /\ prodPc[p] = "idle"
    /\ \A q \in 1..(p - 1) : prodPc[q] # "idle"
    /\ prodPc' = [prodPc EXCEPT ![p] = "send"]
    /\ prodCmd' = [prodCmd EXCEPT ![p] = cmd]
    /\ UNCHANGED <<execCmd, executed>>
    /\ UNCHANGED <<progVars, monVars, sensorVars, wireVars, valVars>>

\* ExecRecv with the executor ending its loop on an unknown command
ExecRecv_StopsOnUnknown(p) ==
    /\ alive
    /\ execPc = "recv"
    /\ prodPc[p] = "send"
    /\ prodPc' = [prodPc EXCEPT ![p] = "returned"]
    /\ execCmd' = prodCmd[p]
    /\ executed' = Append(executed, prodCmd[p])
    /\ CASE prodCmd[p] = "open" ->
               OpenPin' = "High" /\ execPc' = "dwell" /\ UNCHANGED ClosePin
         [] prodCmd[p] = "close" ->
               ClosePin' = "High" /\ execPc' = "dwell" /\ UNCHANGED OpenPin
         [] OTHER ->
               execPc' = "done" /\ UNCHANGED <<OpenPin, ClosePin>>
    /\ UNCHANGED <<users, now, latestTimestamp, alive, mainPc, msg, port, presented,
                   framerPc, c, handler, response>>
    /\ UNCHANGED <<prodCmd, monVars, sensorVars, wireVars, valVars>>

\* main.go:116-122, 124-127, 129-130: the executor receives the command that
\* goroutine p is sending, which lets p's send return, and runs the switch
\* up to the Sleep of the case taken
ExecRecv(p) ==
    /\ alive
    /\ execPc = "recv"
    /\ prodPc[p] = "send"
    /\ prodPc' = [prodPc EXCEPT ![p] = "returned"]
    /\ execCmd' = prodCmd[p]
    /\ executed' = Append(executed, prodCmd[p])
    /\ CASE prodCmd[p] = "open" ->
               OpenPin' = "High" /\ execPc' = "dwell" /\ UNCHANGED ClosePin
         [] prodCmd[p] = "close" ->
               ClosePin' = "High" /\ execPc' = "dwell" /\ UNCHANGED OpenPin
         [] OTHER ->
               execPc' = "recv" /\ UNCHANGED <<OpenPin, ClosePin>>
    /\ UNCHANGED <<users, now, latestTimestamp, alive, mainPc, msg, port, presented,
                   framerPc, c, handler, response>>
    /\ UNCHANGED <<prodCmd, monVars, sensorVars, wireVars, valVars>>

\* main.go:123 and 128: the pin of the case taken goes Low
ExecLow ==
    /\ alive
    /\ execPc = "wake"
    /\ IF execCmd = "open"
       THEN OpenPin' = "Low" /\ UNCHANGED ClosePin
       ELSE ClosePin' = "Low" /\ UNCHANGED OpenPin
    /\ execPc' = "recv"
    /\ UNCHANGED <<users, now, latestTimestamp, alive, mainPc, msg, port, presented,
                   framerPc, c, handler, response>>
    /\ UNCHANGED <<monVars, sensorVars, cmdVars, wireVars, valVars>>

NextExec ==
    \/ ExecStart
    \/ \E p \in 1..MaxProd, cmd \in Cmds : Submit(p, cmd)
    \/ \E p \in 1..MaxProd : ExecRecv(p)
    \/ ExecLow
    \/ Tick

SpecExec == Init /\ [][NextExec]_vars

(***************************************************************************)
(* getRFIDToken (main.go:42-61) byte by byte.  Every pass of its loop      *)
(* makes a new bufio.Reader (main.go:47); ReadBytes fills that reader's    *)
(* buffer with one Read of the port after another until the buffer holds   *)
(* the end byte, and returns the bytes up to it.  What the last Read       *)
(* brought in after the end byte stays in the buffer of a reader that the  *)
(* next pass replaces.  The tokens are taken from the channel at once.     *)
(***************************************************************************)
STX == "x02"
ETX == "x03"

\* payloads of the frames a card reader sends
Payloads == { <<"A", "1">>, <<"0", "F">> }

Frame(payload) == <<STX>> \o payload \o <<ETX>>

\* index of the first end byte of a byte sequence, 0 when it holds none
RECURSIVE IndexETX(_)
IndexETX(bytes) ==
    IF bytes = << >> THEN 0
    ELSE IF Head(bytes) = ETX THEN 1
    ELSE LET k == IndexETX(Tail(bytes)) IN IF k = 0 THEN 0 ELSE k + 1

\* main.go:54-55
StripDelimiters(res) == ReplaceAll(ReplaceAll(res, ETX), STX)

\* the card reader puts one more frame on the serial line
PutFrame(payload) ==
    /\ alive
    /\ Len(payloads) < MaxFrames
    /\ wire' = wire \o Frame(payload)
    /\ payloads' = Append(payloads, payload)
    /\ UNCHANGED <<acc, emitted>>
    /\ UNCHANGED <<progVars, monVars, sensorVars, cmdVars, valVars>>

\* main.go:47-56: one Read of the port brings the next n bytes into the
\* reader's buffer; if the end byte is among them ReadBytes returns, the
\* token is stripped and sent, and the loop starts over with a new reader
FramerFill(n) ==
    /\ alive
    /\ n \in 1..Len(wire)
    /\ LET chunk == SubSeq(wire, 1, n)
           k == IndexETX(chunk)
       IN  /\ wire' = SubSeq(wire, n + 1, Len(wire))
           /\ IF k = 0
              THEN /\ acc' = acc \o chunk
                   /\ UNCHANGED emitted
              ELSE /\ acc' = << >>
                   /\ emitted' = Append(emitted,
                                        StripDelimiters(acc \o SubSeq(chunk, 1, k)))
    /\ UNCHANGED payloads
    /\ UNCHANGED <<progVars, monVars, sensorVars, cmdVars, valVars>>

NextFramer ==
    \/ \E payload \in Payloads : PutFrame(payload)
    \/ \E n \in 1..Len(wire) : FramerFill(n)

SpecFramer == Init /\ [][NextFramer]_vars

IsPrefix(s, t) == Len(s) <= Len(t) /\ s = SubSeq(t, 1, Len(s))

\* C11: the tokens emitted are the payloads of the frames, one per frame and
\* in stream order: at any moment a prefix of them, and all of them once
\* every byte put on the wire has been read.
C11_OneTokenPerFrame ==
    /\ IsPrefix(emitted, payloads)
    /\ (wire = << >> /\ acc = << >>) => emitted = payloads
\* C12: a send on CmdChan never waits for the executor: whenever the executor
\* runs and a goroutine is at its send, also while the executor is in a dwell,
\* the send can complete at once.
C12_SubmitNeverWaits ==
    \A p \in 1..MaxProd :
        (execPc # "unstarted" /\ prodPc[p] = "send") => ENABLED ExecRecv(p)

(***************************************************************************)
(* What the reader loop makes of a token once it is past the debounce      *)
(* check (main.go:204-215), applied to one token after another.            *)
(***************************************************************************)
\* tokens that differ from the key A1B2 in case, in length, by a blank
ValTokens ==
    Tokens \cup { <<"a", "1", "b", "2">>, <<"A", "1", "B">>, <<"A", "1", "B", "2", " ">> }

\* main.go:204-215: found in the table (the greeting is logged, the pin
\* pulsed), not found and valid ("Could not find key" is logged), or neither
Classify(token) ==
    IF token \in DOMAIN users
    THEN [kind |-> "Authorized", owner |-> users[token]]
    ELSE IF isValid(token)
         THEN [kind |-> "Unauthorized", owner |-> ""]
         ELSE [kind |-> "Malformed", owner |-> ""]

Validate(token) ==
    /\ alive
    /\ Len(valTok) < MaxFrames
    /\ valTok' = Append(valTok, token)
    /\ verdict' = Append(verdict, Classify(token))
    /\ UNCHANGED <<progVars, monVars, sensorVars, cmdVars, wireVars>>

NextValidate == \E token \in ValTokens : Validate(token)

SpecValidate == Init /\ [][NextValidate]_vars

\* C13: answering the lock action is the fixed acknowledgment and nothing
\* else: no actuator pin, no debounce state, no command queue state changes.
C13_LockChangesNothing ==
    [][((\E i \in 1..MaxReq : handler[i] = "new" /\ handler'[i] = "done")
            /\ response'.request = "lock")
          => /\ response'.body = "LOCKED"
             /\ UNCHANGED <<OpenPin, ClosePin, latestTimestamp, execPc, cmdVars>>
      ]_vars

\* a lock request has been answered during the pulse of a remote unlock
C13_Witness ==
    /\ response = [request |-> "lock", body |-> "LOCKED"]
    /\ OpenPin = "High"
    /\ \E i \in 1..MaxReq : HandlerPulsing(i)

C15_NoStopWithPinHigh == ~alive => (OpenPin = "Low" /\ ClosePin = "Low")

\* the classification the claim states
ClaimedClass(token) ==
    IF ReplaceAll(ReplaceAll(token, "0"), "F") = << >>
    THEN [kind |-> "Malformed", owner |-> ""]
    ELSE IF token \in DOMAIN users
         THEN [kind |-> "Authorized", owner |-> users[token]]
         ELSE [kind |-> "Unauthorized", owner |-> ""]

\* C16: every token is classified as stated: Malformed exactly when nothing
\* but '0' and 'F' is in it, else Authorized with the owner of that very key,
\* else Unauthorized.
C16_Classification ==
    \A j \in 1..Len(valTok) : verdict[j] = ClaimedClass(valTok[j])

\* C17: a command that is neither open nor close changes no pin and leaves
\* the executor at its receive, ready for the next command.
C17_UnknownCommandDropped ==
    [][(Len(executed') > Len(executed) /\ execCmd' \notin {"open", "close"})
          => /\ UNCHANGED <<OpenPin, ClosePin>>
             /\ execPc' = "recv"
             /\ alive' ]_vars

\* after an unknown command the executor is pulsing for the next command
C17_Witness ==
    /\ executed = <<"reboot", "open">>
    /\ execPc = "dwell"
    /\ OpenPin = "High"

\* C18: a read fault of the framer ends the process and nothing else: the
\* framer leaves its read only with a whole frame taken off the line, the
\* process ends only from that read and with nothing emitted or driven, and
\* once it has ended nothing happens any more.
C18_FaultIsFatal ==
    [][ /\ alive
        /\ (framerPc = "read" /\ framerPc' # "read")
              => /\ port # << >>
                 /\ framerPc' = "send"
                 /\ c' = Head(port)
                 /\ port' = Tail(port)
                 /\ alive'
        /\ ~alive'
              => /\ framerPc = "read"
                 /\ UNCHANGED <<framerPc, c, port, mainPc, msg, OpenPin, ClosePin,
                                latestTimestamp, handler, response>> ]_vars

\* the process has ended with a frame still waiting on the serial line
C18_Witness ==
    /\ ~alive
    /\ port # << >>

\* C19: a token that is no key of the table always reaches the lookup, where
\* it is handled as Unauthorized or Malformed; the debounce check never
\* drops it as a debounced event (stated for the tables whose keys are all
\* well-formed).
C19_GateAfterAuthorization ==
    [][(ReaderReceives /\ c \notin DOMAIN users /\ \A k \in DOMAIN users : isValid(k))
          => mainPc' = "lookup"]_vars

\* C20: the Close pin is Low, the executor is not started and nothing has
\* been sent on CmdChan, in every reachable state of the program.
C20_ClosePinNeverDriven ==
    /\ ClosePin = "Low"
    /\ execPc = "unstarted"
    /\ \A p \in 1..MaxProd : prodPc[p] = "idle"

\* a lock request has been answered and the reader path is pulsing
C20_Witness ==
    /\ response.request = "lock"
    /\ ReaderPulsing
    /\ ClosePin = "Low"

====
